---- MODULE Spec2Model ----
(***************************************************************************)
(* groove-scheduler (main.py): enumeration of the maximal song orderings   *)
(* of a practice window (find_schedules), their attendance cost            *)
(* (find_schedule_costs, is_available) and the final ranking (sorted).     *)
(*                                                                         *)
(* Time is counted in quarters of an hour from an arbitrary origin, so     *)
(* that datetimes whose minute is neither 0 nor 30 can be told apart:      *)
(* a time t has minute 0 or 30 exactly when t is even.                     *)
(***************************************************************************)
EXTENDS Integers, Sequences, FiniteSets, TLC

\* ------------------------------------------------------------ bounds
MaxSongs == 3          \* at most this many songs in the input list
MaxEnd == 8            \* the practice window ends at the latest at this time
NumStudents == 3       \* students scraped from the results page

\* ------------------------------------------------------------ program constants
TIMESTEP == 2                  \* timedelta(minutes=30)
DefaultPracticeLength == 4     \* timedelta(hours=1)
LeaderPenalty == 50
MemberPenalty == 1
None == -1                     \* Schedule.cost before find_schedule_costs writes it

VARIABLES
    songs,                \* main: the list of Song objects
    practice_start_time,  \* main
    practice_end_time,    \* main
    avails_dict,          \* Availability.avails_dict: time -> list of students
    pc,                   \* position of main
    stack,                \* the activations of find_schedules, outermost first
    all_schedules,        \* main: list of Schedule objects
    sched_i,              \* find_schedule_costs: position of `for schedule in all_schedules`
    song_i,               \* find_schedule_costs: position of `for song in schedule.song_order`
    member_i,             \* find_schedule_costs: position of `for member in song.members`
    phase,                \* find_schedule_costs: which statement is next
    current_time,         \* find_schedule_costs: local current_time
    total_cost,           \* find_schedule_costs: local total_cost
    song_cost,            \* find_schedule_costs: local song_cost
    lastCall,             \* the latest call of is_available and its outcome
    sorted_schedules      \* main: sorted(all_schedules, key=cost)

vars == <<songs, practice_start_time, practice_end_time, avails_dict, pc, stack,
          all_schedules, sched_i, song_i, member_i, phase, current_time,
          total_cost, song_cost, lastCall, sorted_schedules>>

inputs == <<songs, practice_start_time, practice_end_time, avails_dict>>
costLocals == <<sched_i, song_i, member_i, phase, current_time, total_cost,
                song_cost, lastCall>>

\* ------------------------------------------------------------ data
Students == 1..NumStudents

\* Song(name, leader, members, practice_length); a song is identified by its name.
Song(name, leader, members, practice_length) ==
    [name |-> name, leader |-> leader, members |-> members,
     practice_length |-> practice_length]

\* Schedule(): song_order = [], cost = None
Schedule == [song_order |-> <<>>, cost |-> None]

\* main: Song k is led by students[k-1] and has the next student as its member.
RosterSong(k, len) ==
    Song(k, ((k - 1) % NumStudents) + 1, << (k % NumStudents) + 1 >>, len)

\* The times with minute 0 or 30 inside the largest window.
Slots == {t \in 0..(MaxEnd - 1) : t % TIMESTEP = 0}

\* get_whenisgood_availability: every student in page order, every time of
\* the student's myCanDos: events[a_dt].append(person), or a new entry.
RECURSIVE BuildEvents(_, _, _)
BuildEvents(k, canDos, events) ==
    IF k > NumStudents THEN events
    ELSE BuildEvents(k + 1, canDos,
            [t \in (DOMAIN events) \cup canDos[k] |->
                IF t \in canDos[k]
                THEN (IF t \in DOMAIN events THEN Append(events[t], k) ELSE <<k>>)
                ELSE events[t]])

EmptyDict == [t \in {} |-> <<>>]

get_whenisgood_availability(canDos) == BuildEvents(1, canDos, EmptyDict)

RECURSIVE SumLen(_)
SumLen(order) ==
    IF order = <<>> THEN 0
    ELSE order[1].practice_length + SumLen(Tail(order))

Names(order) == {order[i].name : i \in DOMAIN order}

\* ------------------------------------------------------------ find_schedules
\* list.remove(song): drops the first element equal to song (Song.__eq__: same name).
RECURSIVE Remove(_, _)
Remove(list, song) ==
    IF list = <<>> THEN <<>>
    ELSE IF list[1].name = song.name THEN Tail(list)
    ELSE <<list[1]>> \o Remove(Tail(list), song)

FitsIgnoringLength(song, now, end_time) == now <= end_time

\* line 121
Fits(song, now, end_time) == song.practice_length + now <= end_time

\* An activation of find_schedules: its parameters and locals, and the
\* position i of `for song in remaining_songs`.
Frame(schedule_so_far, remaining_songs, now) ==
    [schedule_so_far |-> schedule_so_far, remaining_songs |-> remaining_songs,
     current_time |-> now, schedule_complete |-> TRUE, i |-> 1]

\* lines 122-130: the callee's activation for the song the loop is at.
Callee(f) ==
    LET song == f.remaining_songs[f.i]
    IN Frame([f.schedule_so_far EXCEPT !.song_order = Append(@, song)],
             Remove(f.remaining_songs, song),
             f.current_time + song.practice_length)

\* line 127: the caller while the recursive call runs.
InCall(f) ==
    [f EXCEPT !.current_time = @ + f.remaining_songs[f.i].practice_length]

AfterCallNoRestore(f) ==
    [f EXCEPT !.schedule_complete = FALSE, !.i = @ + 1]

AfterCallStillComplete(f) ==
    [f EXCEPT !.current_time = @ - f.remaining_songs[f.i].practice_length,
              !.i = @ + 1]

\* lines 131-132, and the loop moves to the next song.
AfterCall(f) ==
    [f EXCEPT !.current_time = @ - f.remaining_songs[f.i].practice_length,
              !.schedule_complete = FALSE,
              !.i = @ + 1]

AppendIfCompleteNonEmpty(all, f) ==
    IF f.schedule_complete /\ f.schedule_so_far.song_order /= <<>>
    THEN Append(all, f.schedule_so_far) ELSE all

\* lines 134-135
AppendIfComplete(all, f) ==
    IF f.schedule_complete THEN Append(all, f.schedule_so_far) ELSE all

Top == stack[Len(stack)]
SetTop(s, f) == [s EXCEPT ![Len(s)] = f]

\* The loop is at a song that does not fit: next iteration.
ForSkip ==
    /\ pc = "find_schedules"
    /\ Top.i <= Len(Top.remaining_songs)
    /\ ~Fits(Top.remaining_songs[Top.i], Top.current_time, practice_end_time)
    /\ stack' = SetTop(stack, [Top EXCEPT !.i = @ + 1])
    /\ UNCHANGED <<inputs, pc, all_schedules, costLocals, sorted_schedules>>

\* The loop is at a song that fits: lines 122-130.
Recurse ==
    /\ pc = "find_schedules"
    /\ Top.i <= Len(Top.remaining_songs)
    /\ Fits(Top.remaining_songs[Top.i], Top.current_time, practice_end_time)
    /\ stack' = Append(SetTop(stack, InCall(Top)), Callee(Top))
    /\ UNCHANGED <<inputs, pc, all_schedules, costLocals, sorted_schedules>>

\* The loop of an inner activation is over: lines 134-135, then the caller
\* resumes at lines 131-132.
Return ==
    /\ pc = "find_schedules"
    /\ Len(stack) > 1
    /\ Top.i > Len(Top.remaining_songs)
    /\ all_schedules' = AppendIfComplete(all_schedules, Top)
    /\ stack' = LET s == SubSeq(stack, 1, Len(stack) - 1)
                IN SetTop(s, AfterCall(s[Len(s)]))
    /\ UNCHANGED <<inputs, pc, costLocals, sorted_schedules>>

\* The loop of the outermost activation is over: lines 134-135, and main
\* goes on to find_schedule_costs (line 214).
ReturnToMain ==
    /\ pc = "find_schedules"
    /\ Len(stack) = 1
    /\ Top.i > Len(Top.remaining_songs)
    /\ all_schedules' = AppendIfComplete(all_schedules, Top)
    /\ stack' = <<>>
    /\ pc' = "find_schedule_costs"
    /\ UNCHANGED <<inputs, costLocals, sorted_schedules>>

\* ------------------------------------------------------------ is_available
\* `start in availability.avails_dict[start]` compares a datetime with each
\* Student of the list: Student.__eq__ and datetime.__eq__ both answer
\* NotImplemented for the other type, and two distinct objects then compare
\* unequal.
StudentEqDatetime(student, t) == FALSE

DatetimeIn(t, list) == \E j \in DOMAIN list : StudentEqDatetime(list[j], t)

\* line 141: the condition under which "wtf?" is printed.
Unaligned(start, end) == start % TIMESTEP /= 0 \/ end % TIMESTEP /= 0

\* lines 147-154: the loop over the half hours of [start, end). The lookup
\* avails_dict[start] raises KeyError for a time that is no key.
RECURSIVE RelevantAvails(_, _, _, _)
RelevantAvails(start, end, dict, relevant_avails) ==
    IF ~(start < end) THEN [raised |-> "no", relevant_avails |-> relevant_avails]
    ELSE IF start \notin DOMAIN dict
         THEN [raised |-> "KeyError", relevant_avails |-> relevant_avails]
    ELSE RelevantAvails(start + TIMESTEP, end, dict,
            IF DatetimeIn(start, dict[start])
            THEN relevant_avails \o dict[start]
            ELSE relevant_avails)

\* The outcome of is_available: "True" or "False" when it returns, the name
\* of the exception when it raises. Line 158: all(...) of no element is
\* True; `student in avail` with avail a Student raises TypeError.
is_available(student, start, end, dict) ==
    LET r == RelevantAvails(start, end, dict, <<>>)
    IN IF r.raised /= "no" THEN r.raised
       ELSE IF r.relevant_avails = <<>> THEN "True"
       ELSE "TypeError"

Returned(result) == result \in {"True", "False"}

NoCall == [sched |-> 0, song |-> 0, student |-> 0, start |-> 0, end |-> 0,
           wtf |-> FALSE, result |-> "none"]

Call(student, start, end) ==
    [sched |-> sched_i, song |-> song_i, student |-> student, start |-> start,
     end |-> end, wtf |-> Unaligned(start, end),
     result |-> is_available(student, start, end, avails_dict)]

\* ------------------------------------------------------------ find_schedule_costs
LeaderCostWhenAvailable(result) == IF result = "True" THEN LeaderPenalty ELSE 0

\* lines 173-174
LeaderCost(result) == IF ~(result = "True") THEN LeaderPenalty ELSE 0

\* lines 178-179
MemberCost(result) == IF ~(result = "True") THEN MemberPenalty ELSE 0

\* line 183
AddSongCost(total, cost) == total + cost * cost

\* line 163: the loop takes the next schedule (lines 164-165), or is over
\* and main goes on to sorted (line 216).
NextSchedule ==
    /\ pc = "find_schedule_costs"
    /\ phase = "schedule"
    /\ IF sched_i <= Len(all_schedules)
       THEN /\ current_time' = practice_start_time
            /\ total_cost' = 0
            /\ song_i' = 1
            /\ phase' = "song"
            /\ pc' = pc
       ELSE /\ pc' = "sorted"
            /\ UNCHANGED <<current_time, total_cost, song_i, phase>>
    /\ UNCHANGED <<inputs, stack, all_schedules, sched_i, member_i, song_cost,
                   lastCall, sorted_schedules>>

\* lines 168-174: the next song of the schedule and its leader.
ScoreLeader ==
    /\ pc = "find_schedule_costs"
    /\ phase = "song"
    /\ song_i <= Len(all_schedules[sched_i].song_order)
    /\ LET song == all_schedules[sched_i].song_order[song_i]
           start_song_time == current_time
           end_song_time == current_time + song.practice_length
           call == Call(song.leader, start_song_time, end_song_time)
       IN /\ lastCall' = call
          /\ IF Returned(call.result)
             THEN /\ song_cost' = 0 + LeaderCost(call.result)
                  /\ member_i' = 1
                  /\ phase' = "members"
                  /\ pc' = pc
             ELSE /\ pc' = "raised"
                  /\ UNCHANGED <<song_cost, member_i, phase>>
    /\ UNCHANGED <<inputs, stack, all_schedules, sched_i, song_i, current_time,
                   total_cost, sorted_schedules>>

\* lines 177-179: the next member of the song.
ScoreMember ==
    /\ pc = "find_schedule_costs"
    /\ phase = "members"
    /\ LET song == all_schedules[sched_i].song_order[song_i]
       IN /\ member_i <= Len(song.members)
          /\ LET start_song_time == current_time
                 end_song_time == current_time + song.practice_length
                 call == Call(song.members[member_i], start_song_time, end_song_time)
             IN /\ lastCall' = call
                /\ IF Returned(call.result)
                   THEN /\ song_cost' = song_cost + MemberCost(call.result)
                        /\ member_i' = member_i + 1
                        /\ pc' = pc
                   ELSE /\ pc' = "raised"
                        /\ UNCHANGED <<song_cost, member_i>>
    /\ UNCHANGED <<inputs, stack, all_schedules, sched_i, song_i, phase,
                   current_time, total_cost, sorted_schedules>>

\* line 183, and the loop over the songs moves on. current_time is left as
\* it is: the function has no statement that advances it.
EndSong ==
    /\ pc = "find_schedule_costs"
    /\ phase = "members"
    /\ member_i > Len(all_schedules[sched_i].song_order[song_i].members)
    /\ total_cost' = AddSongCost(total_cost, song_cost)
    /\ song_i' = song_i + 1
    /\ phase' = "song"
    /\ UNCHANGED <<inputs, pc, stack, all_schedules, sched_i, member_i,
                   current_time, song_cost, lastCall, sorted_schedules>>

\* line 185
WriteCost ==
    /\ pc = "find_schedule_costs"
    /\ phase = "song"
    /\ song_i > Len(all_schedules[sched_i].song_order)
    /\ all_schedules' = [all_schedules EXCEPT ![sched_i].cost = total_cost]
    /\ sched_i' = sched_i + 1
    /\ phase' = "schedule"
    /\ UNCHANGED <<inputs, pc, stack, song_i, member_i, current_time, total_cost,
                   song_cost, lastCall, sorted_schedules>>

\* ------------------------------------------------------------ sorted
InsertBeforeEqual(list, x) ==
    LET before == SelectSeq(list, LAMBDA y : y.cost < x.cost)
        after == SelectSeq(list, LAMBDA y : ~(y.cost < x.cost))
    IN before \o <<x>> \o after

\* One step of the insertion sort sorted() runs on a short list: x goes
\* after every element whose key is not greater than its own. list is
\* ordered by key.
Insert(list, x) ==
    LET before == SelectSeq(list, LAMBDA y : y.cost <= x.cost)
        after == SelectSeq(list, LAMBDA y : ~(y.cost <= x.cost))
    IN before \o <<x>> \o after

RECURSIVE SortedFrom(_, _)
SortedFrom(done, rest) ==
    IF rest = <<>> THEN done
    ELSE SortedFrom(Insert(done, rest[1]), Tail(rest))

\* sorted(all_schedules, key=lambda s: s.cost)
sorted(list) == SortedFrom(<<>>, list)

\* line 216
Sort ==
    /\ pc = "sorted"
    /\ sorted_schedules' = sorted(all_schedules)
    /\ pc' = "done"
    /\ UNCHANGED <<inputs, stack, all_schedules, costLocals>>

\* ------------------------------------------------------------ specification
\* 30 minutes, 45 minutes, 1 hour
PracticeLengths == {TIMESTEP, TIMESTEP + 1, DefaultPracticeLength}

StartTimes == {0, TIMESTEP}

EveryoneAlways == [s \in Students |-> Slots]

\* A student is free all along, free except for one half hour, or never.
AvailPatterns == {Slots, {}} \cup {Slots \ {t} : t \in Slots}

InitLocals ==
    /\ pc = "find_schedules"
    /\ stack = <<Frame(Schedule, songs, practice_start_time)>>
    /\ all_schedules = <<>>
    /\ sched_i = 1
    /\ song_i = 1
    /\ member_i = 1
    /\ phase = "schedule"
    /\ current_time = practice_start_time
    /\ total_cost = 0
    /\ song_cost = 0
    /\ lastCall = NoCall
    /\ sorted_schedules = <<>>

\* Any list of songs and any window, everybody free all along.
InitSchedules ==
    /\ \E n \in 0..MaxSongs : \E lens \in [1..n -> PracticeLengths] :
          songs = [k \in 1..n |-> RosterSong(k, lens[k])]
    /\ practice_start_time \in StartTimes
    /\ practice_end_time \in practice_start_time..MaxEnd
    /\ avails_dict = get_whenisgood_availability(EveryoneAlways)

\* Two songs of one hour in a window of two hours, any availability.
InitAvailability ==
    /\ songs = <<RosterSong(1, DefaultPracticeLength),
                 RosterSong(2, DefaultPracticeLength)>>
    /\ practice_start_time = 0
    /\ practice_end_time = 2 * DefaultPracticeLength
    /\ \E canDos \in [Students -> AvailPatterns] :
          avails_dict = get_whenisgood_availability(canDos)

Init == (InitSchedules \/ InitAvailability) /\ InitLocals

Next ==
    \/ ForSkip
    \/ Recurse
    \/ Return
    \/ ReturnToMain
    \/ NextSchedule
    \/ ScoreLeader
    \/ ScoreMember
    \/ EndSong
    \/ WriteCost
    \/ Sort

Spec == Init /\ [][Next]_vars

TypeOK ==
    /\ pc \in {"find_schedules", "find_schedule_costs", "sorted", "done", "raised"}
    /\ \A i \in DOMAIN all_schedules : all_schedules[i].cost >= None

\* ------------------------------------------------------------ properties
Orders == {all_schedules[i].song_order : i \in DOMAIN all_schedules}

Window == practice_end_time - practice_start_time

\* The instant at which an order of songs played back to back from the
\* start of the window is over.
EndOf(order) == practice_start_time + SumLen(order)

StrictPrefix(a, b) == Len(a) < Len(b) /\ SubSeq(b, 1, Len(a)) = a

\* The songs of the input that are not in the order, in input order.
Unused(order) == SelectSeq(songs, LAMBDA s : s.name \notin Names(order))

EnumerationOver == pc /= "find_schedules"

\* C1: the k-th song of a schedule is scored against the interval that
\* starts at practice_start_time plus the practice lengths of the songs
\* before it and lasts its own practice length; and in the window of two
\* hours with two songs of one hour where the leader of Song 1 misses only
\* the first half hour, the two orderings get different costs and the one
\* with Song 1 second costs 0.
ScenarioB ==
    /\ songs = <<RosterSong(1, DefaultPracticeLength),
                 RosterSong(2, DefaultPracticeLength)>>
    /\ practice_start_time = 0
    /\ practice_end_time = 2 * DefaultPracticeLength
    /\ avails_dict = get_whenisgood_availability(
                        [EveryoneAlways EXCEPT ![1] = Slots \ {0}])

CostOfNames(names) ==
    LET i == CHOOSE j \in DOMAIN sorted_schedules :
                 [k \in DOMAIN sorted_schedules[j].song_order |->
                     sorted_schedules[j].song_order[k].name] = names
    IN sorted_schedules[i].cost

C1_CursorAdvances ==
    /\ lastCall.result /= "none" =>
          LET order == all_schedules[lastCall.sched].song_order
          IN /\ lastCall.start = EndOf(SubSeq(order, 1, lastCall.song - 1))
             /\ lastCall.end = lastCall.start + order[lastCall.song].practice_length
    /\ (ScenarioB /\ pc = "done") =>
          /\ CostOfNames(<<1, 2>>) /= CostOfNames(<<2, 1>>)
          /\ CostOfNames(<<2, 1>>) = 0

\* C2: is_available returns true exactly when every half hour start,
\* start+30min, ... before end lists the student, and false otherwise.
QuerySlots(start, end) ==
    {t \in start..(end - 1) : (t - start) % TIMESTEP = 0}

Listed(student, t) ==
    /\ t \in DOMAIN avails_dict
    /\ \E j \in DOMAIN avails_dict[t] : avails_dict[t][j] = student

C2_IsAvailableIffEverySlot ==
    lastCall.result /= "none" =>
        LET every == \A t \in QuerySlots(lastCall.start, lastCall.end) :
                        Listed(lastCall.student, t)
        IN /\ every => lastCall.result = "True"
           /\ ~every => lastCall.result = "False"

\* C3: the practice lengths of the songs of every schedule in
\* all_schedules add up to at most end_time minus the initial current_time.
C3_Capacity ==
    \A i \in DOMAIN all_schedules :
        SumLen(all_schedules[i].song_order) <= Window

C3_Witness ==
    /\ pc = "done"
    /\ practice_start_time > 0
    /\ \E i \in DOMAIN all_schedules :
          /\ Len(all_schedules[i].song_order) >= 2
          /\ SumLen(all_schedules[i].song_order) = Window
          /\ Unused(all_schedules[i].song_order) /= <<>>

\* C4: no song of the input that is absent from a schedule of
\* all_schedules fits after it before end_time, and no schedule of
\* all_schedules is a strict prefix of another.
C4_Maximality ==
    /\ \A i \in DOMAIN all_schedules :
          LET order == all_schedules[i].song_order
          IN \A k \in DOMAIN songs :
                songs[k].name \notin Names(order) =>
                    ~(songs[k].practice_length + EndOf(order) <= practice_end_time)
    /\ \A i, j \in DOMAIN all_schedules :
          ~StrictPrefix(all_schedules[i].song_order, all_schedules[j].song_order)

C4_Witness ==
    /\ pc = "done"
    /\ Len(all_schedules) >= 2
    /\ \E i \in DOMAIN all_schedules :
          /\ all_schedules[i].song_order /= <<>>
          /\ Unused(all_schedules[i].song_order) /= <<>>
          /\ SumLen(all_schedules[i].song_order) < Window

\* C5 as stated: when no song of the input fits in the window,
\* all_schedules is empty after find_schedules returns, and no error is
\* raised.
NoSongFits ==
    \A k \in DOMAIN songs :
        ~(songs[k].practice_length + practice_start_time <= practice_end_time)

C5_NoCandidates ==
    (EnumerationOver /\ NoSongFits) =>
        /\ all_schedules = <<>>
        /\ pc /= "raised"

\* C5 as amended: when no song of the input fits in the window,
\* all_schedules holds exactly one schedule after find_schedules returns,
\* the one with the empty song_order, and no error is raised.
C5_OneEmptyCandidate ==
    (EnumerationOver /\ NoSongFits) =>
        /\ Len(all_schedules) = 1
        /\ all_schedules[1].song_order = <<>>
        /\ pc /= "raised"

C5_Witness ==
    /\ pc = "done"
    /\ Len(songs) = 1
    /\ songs[1].practice_length = DefaultPracticeLength
    /\ Window = TIMESTEP
    /\ NoSongFits

\* C6: sorted_schedules is a permutation of all_schedules in non-decreasing
\* order of cost, and schedules of equal cost keep the order in which
\* find_schedules appended them.
Position(schedule) ==
    CHOOSE i \in DOMAIN all_schedules : all_schedules[i] = schedule

C6_StableRanking ==
    pc = "done" =>
        /\ Len(sorted_schedules) = Len(all_schedules)
        /\ \A i \in DOMAIN all_schedules :
              Cardinality({j \in DOMAIN sorted_schedules :
                              sorted_schedules[j] = all_schedules[i]})
              = Cardinality({j \in DOMAIN all_schedules :
                              all_schedules[j] = all_schedules[i]})
        /\ \A i, j \in DOMAIN sorted_schedules :
              i < j =>
                 /\ sorted_schedules[i].cost <= sorted_schedules[j].cost
                 /\ sorted_schedules[i].cost = sorted_schedules[j].cost =>
                       Position(sorted_schedules[i]) < Position(sorted_schedules[j])

C6_Witness ==
    /\ pc = "done"
    /\ Len(sorted_schedules) >= 3
    /\ \E i, j \in DOMAIN sorted_schedules :
          i < j /\ sorted_schedules[i].cost = sorted_schedules[j].cost

\* C7: a query over a half hour with no entry in avails_dict, or for a
\* student listed in no entry, ends without an exception and answers
\* false, so that every schedule gets a cost.
C7_ClosedWorld ==
    /\ lastCall.result /= "none" =>
          LET noEntry == \E t \in QuerySlots(lastCall.start, lastCall.end) :
                            t \notin DOMAIN avails_dict
              nowhere == \A t \in DOMAIN avails_dict : ~Listed(lastCall.student, t)
          IN (noEntry \/ (nowhere /\ lastCall.start < lastCall.end)) =>
                lastCall.result = "False"
    /\ pc /= "raised"
    /\ pc = "done" => \A i \in DOMAIN all_schedules : all_schedules[i].cost /= None

\* C8: a query whose start or end has a minute other than 0 and 30 ends in
\* UnalignedQueryError, gives no boolean, and no cost comes from it.
C8_UnalignedRaises ==
    (lastCall.result /= "none" /\ Unaligned(lastCall.start, lastCall.end)) =>
        /\ lastCall.result = "UnalignedQueryError"
        /\ pc = "raised"

\* C9: every order of distinct songs of the input that fits in the window
\* and that no unused song can extend is in all_schedules exactly once when
\* find_schedules has returned; and every activation sees, whenever its
\* loop runs, the current_time, schedule_so_far and remaining_songs it was
\* called with (n! schedules when the n songs fit together).
Injective(q) == \A a, b \in DOMAIN q : q[a] = q[b] => a = b

CandidateOrders ==
    {[k \in DOMAIN q |-> songs[q[k]]] :
        q \in {p \in UNION {[1..m -> DOMAIN songs] : m \in 0..Len(songs)} :
                  Injective(p)}}

IsMaximal(order) ==
    /\ EndOf(order) <= practice_end_time
    /\ \A k \in DOMAIN songs :
          songs[k].name \notin Names(order) =>
              EndOf(order) + songs[k].practice_length > practice_end_time

Times(order) ==
    Cardinality({i \in DOMAIN all_schedules : all_schedules[i].song_order = order})

FrameAsCalled(d) ==
    LET f == stack[d]
        order == f.schedule_so_far.song_order
    IN /\ f.remaining_songs = Unused(order)
       /\ f.schedule_so_far.cost = None
       /\ IF d = Len(stack)
          THEN f.current_time = EndOf(order)
          ELSE /\ f.i \in DOMAIN f.remaining_songs
               /\ f.current_time = EndOf(order) + f.remaining_songs[f.i].practice_length
               /\ stack[d + 1].schedule_so_far.song_order
                     = Append(order, f.remaining_songs[f.i])

C9_Complete ==
    /\ \A d \in DOMAIN stack : FrameAsCalled(d)
    /\ EnumerationOver =>
          \A order \in CandidateOrders : IsMaximal(order) => Times(order) = 1

RECURSIVE Factorial(_)
Factorial(n) == IF n = 0 THEN 1 ELSE n * Factorial(n - 1)

C9_Witness ==
    /\ pc = "done"
    /\ Len(songs) = MaxSongs
    /\ Len(all_schedules) = Factorial(MaxSongs)
    /\ \A i \in DOMAIN all_schedules :
          Len(all_schedules[i].song_order) = MaxSongs

\* C10: the cost of a schedule is the sum over its songs of (L + M)^2, L
\* being 50 if is_available answers false for the leader and 0 otherwise,
\* M the number of members for whom it answers false; it is at least 0, it
\* is 0 exactly when is_available answers false for nobody, and it is
\* written once: a schedule the loop has passed has that cost, the others
\* still have None.
Interval(song) ==
    [start |-> practice_start_time,
     end |-> practice_start_time + song.practice_length]

Missing(student, song) ==
    is_available(student, Interval(song).start, Interval(song).end, avails_dict)
        = "False"

SongPenalty(song) ==
    LET L == IF Missing(song.leader, song) THEN LeaderPenalty ELSE 0
        M == Cardinality({j \in DOMAIN song.members : Missing(song.members[j], song)})
    IN (L + M) * (L + M)

RECURSIVE SumPenalty(_)
SumPenalty(order) ==
    IF order = <<>> THEN 0 ELSE SongPenalty(order[1]) + SumPenalty(Tail(order))

NobodyMissing(order) ==
    \A k \in DOMAIN order :
        /\ ~Missing(order[k].leader, order[k])
        /\ \A j \in DOMAIN order[k].members : ~Missing(order[k].members[j], order[k])

C10_CostFormula ==
    \A i \in DOMAIN all_schedules :
        LET schedule == all_schedules[i]
        IN IF pc \in {"find_schedules"} \/ i >= sched_i
           THEN schedule.cost = None
           ELSE /\ schedule.cost = SumPenalty(schedule.song_order)
                /\ schedule.cost >= 0
                /\ schedule.cost = 0 <=> NobodyMissing(schedule.song_order)

C10_Witness ==
    /\ pc = "done"
    /\ Len(all_schedules) >= 2
    /\ \A i \in DOMAIN all_schedules :
          /\ Len(all_schedules[i].song_order) >= 2
          /\ all_schedules[i].cost /= None

====
